---------------------------- MODULE Spec2Model ----------------------------
(***************************************************************************)
(* sentry2csv: export of a Sentry project's issues to CSV.                 *)
(*                                                                         *)
(* The model follows src/sentry2csv/sentry2csv.py: the export coroutine    *)
(* (pagination, optional enrichment fan-out with asyncio.gather, CSV       *)
(* serialisation, error translation) run by one asyncio event loop.        *)
(*                                                                         *)
(* Spec is a run of export without --environment; SpecQuery the runs with  *)
(* and without it.  SpecFetch, SpecWalk, SpecCsv and SpecParse call fetch, *)
(* enrich_issue, write_csv and extract_enrichment on their own, on inputs  *)
(* wider than a run of the model meets.                                    *)
(*                                                                         *)
(* Python values are tagged: [t |-> "str" | "num" | "bool" | "obj" |       *)
(* "list" | "null", v |-> ...].  A dict (t = "obj") is an association     *)
(* list of <<key, value>> pairs with unique keys, in insertion order, as   *)
(* Python dicts keep it.                                                   *)
(***************************************************************************)
EXTENDS Integers, Sequences, FiniteSets, TLC

VARIABLES
    organization,   \* export() argument
    project,        \* export() argument
    enrichments,    \* export() local: the Enrichment list (enrich or [])
    pc,             \* position of the export coroutine
    session,        \* aiohttp.ClientSession: "unopened" | "open" | "closed"
    closeCount,     \* number of times the session was released
    page_count,     \* fetch_issues local
    cursor,         \* fetch_issues local
    issues,         \* fetch_issues local / export local: list of records
    task,           \* enrichment tasks: position of each enrich_issue coroutine
    gatherExc,      \* exception set on the gather future: the first task failure
    exc,            \* the exception propagating in export(), if any
    fetchCall,      \* a call of fetch taken alone: its response and what fetch made of it
    stdout,         \* lines printed so far
    outcome,        \* how the run ended: "running" | "success" | "exit1" | exception name
    file,           \* the output file: "absent" or [name, lines]
    writeCalls,     \* arguments of every write_csv call made
    fetchLog,       \* every fetch issued on the session, in order
    pageLog,        \* every list-endpoint response received, in order
    raised,         \* the exceptions raised in the run so far
    environment,    \* main's args.environment
    query_params,   \* export's query_params argument, built by main
    eventLog,       \* per enrichment task, the latest-event body it was given
    walkCall,       \* enrich_issue called on its own: arguments and result
    csvCall,        \* write_csv called on its own: arguments and result
    parseCall       \* extract_enrichment called on its own: argument and result

vars == << organization, project, enrichments, pc, session, closeCount,
           page_count, cursor, issues, task, gatherExc, exc, fetchCall, stdout, outcome,
           file, writeCalls, fetchLog, pageLog, raised, environment, query_params,
           eventLog, walkCall, csvCall, parseCall >>

-----------------------------------------------------------------------------
(* Bounds of the model *)

MaxPages == 2       \* list pages a run fetches at most
MaxIssues == 2      \* records the list pages of a run carry at most, in total
MaxPathLen == 3     \* segments of an enrichment path, and depth of an event, at most
MaxRecords == 2     \* records of a list write_csv is called on by itself, at most
MaxMappingLen == 7  \* characters of an --enrich mapping string, at most

-----------------------------------------------------------------------------
(* Python values *)

Str(s) == [t |-> "str", v |-> s]
Num(n) == [t |-> "num", v |-> n]
Obj(d) == [t |-> "obj", v |-> d]
Lst(l) == [t |-> "list", v |-> l]
Bool(b) == [t |-> "bool", v |-> b]
Null == [t |-> "null", v |-> ""]

\* isinstance(x, dict) / isinstance(x, list)
IsDict(x) == x.t = "obj"
IsList(x) == x.t = "list"

\* key in d
DHas(d, k) == \E i \in 1..Len(d) : d[i][1] = k

\* d[k], for a key that is present
DGet(d, k) == d[CHOOSE i \in 1..Len(d) : d[i][1] = k][2]

\* d.get(k, default)
DGetOr(d, k, default) == IF DHas(d, k) THEN DGet(d, k) ELSE default

\* d[k] = val: an existing key keeps its place, a new key is appended
DPut(d, k, val) ==
    IF DHas(d, k)
    THEN [i \in 1..Len(d) |-> IF d[i][1] = k THEN <<k, val>> ELSE d[i]]
    ELSE Append(d, <<k, val>>)

\* list(d.keys())
DKeys(d) == [i \in 1..Len(d) |-> d[i][1]]

\* {**a, **b}
RECURSIVE DMerge(_, _)
DMerge(a, b) ==
    IF b = <<>> THEN a
    ELSE DMerge(DPut(a, b[1][1], b[1][2]), Tail(b))


\* x == s for a Python value x and a string literal s
IsStr(x, s) == x.t = "str" /\ x.v = s

\* x == {}
IsEmptyDict(x) == x.t = "obj" /\ Len(x.v) = 0

-----------------------------------------------------------------------------
(* Exceptions *)

StatusForbidden == 403

NoExc == [type |-> "none", message |-> <<>>]

\* Sentry2CSVException(message)
Sentry2CSVException(message) == [type |-> "Sentry2CSVException", message |-> message]

\* any exception export() has no handler for
Unhandled(type) == [type |-> type, message |-> <<>>]

AccessDeniedMessage == <<"Failed to query Sentry: access denied.">>
ApiErrorMessage(detail) == <<"Failed to query Sentry. Received unexpected response: ", detail>>
MalformedMessage == <<"Unexpected API response. Run with -vv to debug.">>

IsHandled(e) == e.type = "Sentry2CSVException"

-----------------------------------------------------------------------------
(* fetch: one GET on the session.  A response is [status, body, links];   *)
(* body is the JSON document the response carries, links the parsed Link   *)
(* header (a dict of dicts, empty when there is no header).                *)

\* Mutant of Fetch: every error status is taken for a denial
FetchDenyingErrors(response) ==
    IF response.status >= 400
    THEN [exc |-> Sentry2CSVException(AccessDeniedMessage), decoded |-> FALSE,
          body |-> Str(""), links |-> <<>>]
    ELSE [exc |-> NoExc, decoded |-> TRUE,
          body |-> response.body, links |-> response.links]

Fetch(response) ==
    IF response.status = StatusForbidden
    THEN [exc |-> Sentry2CSVException(AccessDeniedMessage), decoded |-> FALSE,
          body |-> Str(""), links |-> <<>>]
    ELSE [exc |-> NoExc, decoded |-> TRUE,
          body |-> response.body, links |-> response.links]

-----------------------------------------------------------------------------
(* fetch_issues: what one loop iteration does with the fetched page *)

\* Mutant of LastPage: the results attribute is compared without regard to case
LastPageAnyCase(links) ==
    LET next == DGetOr(links, "next", <<>>)
    IN  ~(DHas(next, "results") /\ DGet(next, "results") \in {"true", "True"})

\* links.get("next", MultiDict()).get("results") != "true"
LastPage(links) ==
    LET next == DGetOr(links, "next", <<>>)
    IN  ~(DHas(next, "results") /\ DGet(next, "results") = "true")

\* Mutant of Extend: the page is put in front of the accumulator
ExtendInFront(acc, resp) == resp \o acc

\* issues.extend(resp)
Extend(acc, resp) == acc \o resp

\* Mutant of PageStep: an error body ends the pagination like a last page
PageStepIgnoringDetail(acc, cur, fetched) ==
    IF ~IsList(fetched.body)
    THEN [exc |-> NoExc, issues |-> acc, cursor |-> cur, more |-> FALSE]
    ELSE IF LastPage(fetched.links) \/ ~DHas(DGet(fetched.links, "next"), "cursor")
    THEN [exc |-> NoExc, issues |-> Extend(acc, fetched.body.v),
          cursor |-> cur, more |-> FALSE]
    ELSE [exc |-> NoExc, issues |-> Extend(acc, fetched.body.v),
          cursor |-> DGet(DGet(fetched.links, "next"), "cursor"), more |-> TRUE]

\* The iteration after `await fetch(...)` returned `fetched`:
\* [exc, issues, cursor, more]
PageStep(acc, cur, fetched) ==
    IF IsDict(fetched.body) /\ DHas(fetched.body.v, "detail")
    THEN [exc |-> Sentry2CSVException(ApiErrorMessage(DGet(fetched.body.v, "detail"))),
          issues |-> acc, cursor |-> cur, more |-> FALSE]
    ELSE IF ~IsList(fetched.body)
    THEN [exc |-> Unhandled("AssertionError"),
          issues |-> acc, cursor |-> cur, more |-> FALSE]
    ELSE IF LastPage(fetched.links)
    THEN [exc |-> NoExc, issues |-> Extend(acc, fetched.body.v),
          cursor |-> cur, more |-> FALSE]
    ELSE IF ~DHas(DGet(fetched.links, "next"), "cursor")
    THEN [exc |-> Unhandled("KeyError"), issues |-> Extend(acc, fetched.body.v),
          cursor |-> cur, more |-> FALSE]
    ELSE [exc |-> NoExc, issues |-> Extend(acc, fetched.body.v),
          cursor |-> DGet(DGet(fetched.links, "next"), "cursor"), more |-> TRUE]

-----------------------------------------------------------------------------
(* enrich_issue: the path walk over the latest event *)

\* for step in enrichment.sentry_path[1:]: value = value.get(step, {})
RECURSIVE WalkSteps(_, _)
WalkSteps(value, steps) ==
    IF steps = <<>> THEN [exc |-> NoExc, value |-> value]
    ELSE IF ~IsDict(value) THEN [exc |-> Unhandled("AttributeError"), value |-> value]
    ELSE WalkSteps(DGetOr(value.v, Head(steps), Obj(<<>>)), Tail(steps))

\* Mutant of EnrichOne: a value that is missing is not stored
EnrichOneSkippingMissing(side, event, enrichment) ==
    IF ~IsDict(event) THEN [exc |-> Unhandled("AssertionError"), side |-> side]
    ELSE LET w == WalkSteps(DGetOr(event.v, enrichment.sentry_path[1], Obj(<<>>)),
                            Tail(enrichment.sentry_path))
         IN  IF w.exc.type # "none"
             THEN [exc |-> w.exc, side |-> DPut(side, enrichment.csv_field, w.value)]
             ELSE [exc |-> NoExc,
                   side |-> IF IsEmptyDict(w.value) THEN side
                            ELSE DPut(side, enrichment.csv_field, w.value)]

\* One pass of the `for enrichment in enrichments` loop on the side-map
EnrichOne(side, event, enrichment) ==
    IF ~IsDict(event) THEN [exc |-> Unhandled("AssertionError"), side |-> side]
    ELSE LET w == WalkSteps(DGetOr(event.v, enrichment.sentry_path[1], Obj(<<>>)),
                            Tail(enrichment.sentry_path))
         IN  IF w.exc.type # "none"
             THEN [exc |-> w.exc, side |-> DPut(side, enrichment.csv_field, w.value)]
             ELSE [exc |-> NoExc,
                   side |-> DPut(side, enrichment.csv_field,
                                 IF IsEmptyDict(w.value) THEN Str("") ELSE w.value)]

RECURSIVE EnrichLoop(_, _, _)
EnrichLoop(side, event, todo) ==
    IF todo = <<>> THEN [exc |-> NoExc, side |-> side]
    ELSE LET one == EnrichOne(side, event, Head(todo))
         IN  IF one.exc.type # "none" THEN one
             ELSE EnrichLoop(one.side, event, Tail(todo))

\* Mutant of EnrichIssue: the record is replaced by its side-map
EnrichIssueReplacing(issue, fetched, enrs) ==
    LET loop == EnrichLoop(<<>>, fetched.body, enrs)
    IN  [exc |-> loop.exc,
         issue |-> Obj(<< <<"_enrichments", Obj(loop.side)>> >>)]

\* enrich_issue after `await fetch(...)` returned `fetched`: [exc, issue]
EnrichIssue(issue, fetched, enrs) ==
    LET loop == EnrichLoop(<<>>, fetched.body, enrs)
    IN  [exc |-> loop.exc,
         issue |-> Obj(DPut(issue.v, "_enrichments", Obj(loop.side)))]

-----------------------------------------------------------------------------
(* write_csv *)

FixedFieldnames == <<"Error", "Location", "Details", "Events", "Users", "Notes", "Link">>

\* Mutant of Fieldnames: the side-map keys come before the fixed columns
FieldnamesSideFirst(recs) ==
    IF recs # <<>> /\ DHas(recs[1].v, "_enrichments")
    THEN DKeys(DGet(recs[1].v, "_enrichments").v) \o FixedFieldnames
    ELSE FixedFieldnames

\* fieldnames, extended with the first issue's side-map keys
Fieldnames(recs) ==
    IF recs # <<>> /\ DHas(recs[1].v, "_enrichments")
    THEN FixedFieldnames \o DKeys(DGet(recs[1].v, "_enrichments").v)
    ELSE FixedFieldnames

KeyError == [exc |-> Unhandled("KeyError"), row |-> <<>>]

\* Mutant of BaseRow: on a name collision the fixed column wins
BaseRowFixedWins(d, error, details) ==
    IF ~DHas(d, "culprit") \/ ~DHas(d, "count") \/ ~DHas(d, "userCount")
       \/ ~DHas(d, "permalink")
    THEN KeyError
    ELSE [exc |-> NoExc,
          row |-> DMerge(DGetOr(d, "_enrichments", Obj(<<>>)).v,
                         << <<"Error", error>>,
                            <<"Location", DGet(d, "culprit")>>,
                            <<"Details", details>>,
                            <<"Events", DGet(d, "count")>>,
                            <<"Users", DGet(d, "userCount")>>,
                            <<"Notes", Str("")>>,
                            <<"Link", DGet(d, "permalink")>> >>)]

\* The row dict built from error/details and the other required fields
BaseRow(d, error, details) ==
    IF ~DHas(d, "culprit") \/ ~DHas(d, "count") \/ ~DHas(d, "userCount")
       \/ ~DHas(d, "permalink")
    THEN KeyError
    ELSE [exc |-> NoExc,
          row |-> DMerge(<< <<"Error", error>>,
                            <<"Location", DGet(d, "culprit")>>,
                            <<"Details", details>>,
                            <<"Events", DGet(d, "count")>>,
                            <<"Users", DGet(d, "userCount")>>,
                            <<"Notes", Str("")>>,
                            <<"Link", DGet(d, "permalink")>> >>,
                         DGetOr(d, "_enrichments", Obj(<<>>)).v)]

\* The body of the try block up to the row dict: [exc, row].
\* metadata, when present, is a mapping.
Project(issue) ==
    LET d == issue.v IN
    IF ~DHas(d, "type") THEN KeyError
    ELSE LET issue_type == DGet(d, "type") IN
         IF IsStr(issue_type, "error")
         THEN IF ~DHas(d, "metadata") THEN KeyError
              ELSE LET m == DGet(d, "metadata").v IN
                   IF ~DHas(m, "value") THEN KeyError
                   ELSE BaseRow(d, DGetOr(m, "type", issue_type), DGet(m, "value"))
         ELSE IF IsStr(issue_type, "csp")
         THEN IF ~DHas(d, "metadata") THEN KeyError
              ELSE LET m == DGet(d, "metadata").v IN
                   IF ~DHas(m, "message") THEN KeyError
                   ELSE BaseRow(d, Str("csp"), DGet(m, "message"))
         ELSE IF IsStr(issue_type, "default")
         THEN IF ~DHas(d, "metadata") THEN KeyError
              ELSE BaseRow(d, Str("default"),
                           DGetOr(DGet(d, "metadata").v, "title", Str("")))
         ELSE BaseRow(d, issue_type, Str(""))

\* csv.DictWriter.writerow: the cells of the row, by fieldnames
RowCells(fieldnames, row) ==
    [i \in 1..Len(fieldnames) |-> DGetOr(row, fieldnames[i], Str(""))]

\* csv.DictWriter.writeheader
HeaderCells(fieldnames) == [i \in 1..Len(fieldnames) |-> Str(fieldnames[i])]

\* Mutant of WriteRows: a record with a missing field is skipped
RECURSIVE WriteRowsSkipping(_, _, _)
WriteRowsSkipping(fieldnames, todo, lines) ==
    IF todo = <<>> THEN [exc |-> NoExc, lines |-> lines]
    ELSE LET p == Project(Head(todo)) IN
         IF p.exc.type = "KeyError"
         THEN WriteRowsSkipping(fieldnames, Tail(todo), lines)
         ELSE IF \E i \in 1..Len(p.row) :
                    \A j \in 1..Len(fieldnames) : fieldnames[j] # p.row[i][1]
         THEN [exc |-> Unhandled("ValueError"), lines |-> lines]
         ELSE WriteRowsSkipping(fieldnames, Tail(todo),
                                Append(lines, RowCells(fieldnames, p.row)))

\* for issue in issues: ... writer.writerow(row); `lines` is the file so far
RECURSIVE WriteRows(_, _, _)
WriteRows(fieldnames, todo, lines) ==
    IF todo = <<>> THEN [exc |-> NoExc, lines |-> lines]
    ELSE LET p == Project(Head(todo)) IN
         IF p.exc.type = "KeyError"
         THEN [exc |-> Sentry2CSVException(MalformedMessage), lines |-> lines]
         ELSE IF \E i \in 1..Len(p.row) :
                    \A j \in 1..Len(fieldnames) : fieldnames[j] # p.row[i][1]
         THEN [exc |-> Unhandled("ValueError"), lines |-> lines]
         ELSE WriteRows(fieldnames, Tail(todo),
                        Append(lines, RowCells(fieldnames, p.row)))

\* write_csv(filename, issues): [exc, file]
WriteCsv(filename, recs) ==
    LET fieldnames == Fieldnames(recs)
        written == WriteRows(fieldnames, recs, <<HeaderCells(fieldnames)>>)
    IN  [exc |-> written.exc,
         file |-> [name |-> filename, lines |-> written.lines]]


\* f"{organization}-{project}-export.csv"
OutFileName(org, proj) == <<org, "-", proj, "-export.csv">>

-----------------------------------------------------------------------------
(* The remote: what the two endpoints may answer *)

Organizations == {"acme"}
Projects == {"web"}

Enrichment(csv_field, sentry_path) == [csv_field |-> csv_field, sentry_path |-> sentry_path]

\* --enrich absent, or "a.b=Version,c=Build"
EnrichmentChoices ==
    { <<>>, <<Enrichment("Version", <<"a", "b">>), Enrichment("Build", <<"c">>)>> }

Statuses == {200, StatusForbidden, 500}

Cursors == {"c1", "c2"}

IssueA ==
    Obj(<< <<"id", Str("1")>>, <<"type", Str("error")>>,
           <<"metadata", Obj(<< <<"type", Str("warning")>>, <<"value", Str("explanation")>> >>)>>,
           <<"culprit", Str("X")>>, <<"count", Num(123)>>, <<"userCount", Num(3)>>,
           <<"permalink", Str("L")>> >>)

\* a csp record without metadata.message
IssueB ==
    Obj(<< <<"id", Str("2")>>, <<"type", Str("csp")>>,
           <<"metadata", Obj(<< <<"type", Str("csp")>> >>)>>,
           <<"culprit", Str("Y")>>, <<"count", Num(1)>>, <<"userCount", Num(1)>>,
           <<"permalink", Str("M")>> >>)

IssuePool == {IssueA, IssueB}

SeqsUpTo(S, n) == UNION { [1..k -> S] : k \in 0..n }

ListBodies ==
    { Lst(l) : l \in SeqsUpTo(IssuePool, MaxIssues) }
    \cup { Obj(<< <<"detail", Str("Invalid query")>> >>),
           Obj(<< <<"error", Str("oops")>> >>),
           Str("maintenance") }

Link(attrs) == << <<"next", attrs>> >>

LinkChoices ==
    { <<>>,
      Link(<< <<"cursor", "c1">> >>),
      Link(<< <<"results", "false">>, <<"cursor", "c1">> >>),
      Link(<< <<"results", "True">>, <<"cursor", "c1">> >>),
      Link(<< <<"results", "true">> >>) }
    \cup { Link(<< <<"results", "true">>, <<"cursor", c>> >>) : c \in Cursors }

EventBodies ==
    { Obj(<< <<"a", Obj(<< <<"b", Num(5)>> >>)>>, <<"c", Num(13)>> >>),
      Obj(<< <<"a", Str("s")>> >>),
      Lst(<<>>) }

\* Every response fetch can be given
Responses == [status : Statuses, body : ListBodies \cup EventBodies, links : LinkChoices]

ErrorBody == Obj(<< <<"detail", Str("You do not have permission to perform this action.")>> >>)

\* The answers of the list endpoint: any body and links with status 200, and
\* the error statuses with an error body
ListResponses ==
    [status : {200}, body : ListBodies, links : LinkChoices]
    \cup [status : Statuses \ {200}, body : {ErrorBody}, links : {<<>>}]

\* The answers of the latest-event endpoint
EventResponses ==
    [status : {200}, body : EventBodies, links : {<<>>}]
    \cup [status : Statuses \ {200}, body : {ErrorBody}, links : {<<>>}]

-----------------------------------------------------------------------------
(* main: the filter of the list fetch *)

QueryParam(field, value) == [field |-> field, value |-> value]

\* Mutant of Repr: the field and the value joined by "="
ReprWithEquals(param) == param.field \o "=" \o param.value

\* QueryParam.__repr__
Repr(param) == param.field \o ":" \o param.value

\* sep.join(strs)
RECURSIVE Join(_, _)
Join(strs, sep) ==
    IF strs = <<>> THEN ""
    ELSE IF Len(strs) = 1 THEN strs[1]
    ELSE strs[1] \o sep \o Join(Tail(strs), sep)

\* query_str of fetch_issues
QueryStr(params) == Join([i \in 1..Len(params) |-> Repr(params[i])], " ")

\* args.environment: None (here <<>>) or the one-element list argparse builds
Environments == { <<>>, <<"prod">>, <<"dev">>, <<"">> }

\* query_params as main builds it
MainQueryParams(env) ==
    <<QueryParam("is", "unresolved")>>
        \o (IF env # <<>> THEN <<QueryParam("environment", env[1])>> ELSE <<>>)

-----------------------------------------------------------------------------
(* State *)

NoFile == [exists |-> FALSE, name |-> <<>>, lines |-> <<>>]

NoFetch == [response |-> [status |-> 0, body |-> Str(""), links |-> <<>>],
            result |-> [exc |-> NoExc, decoded |-> FALSE, body |-> Str(""), links |-> <<>>]]

\* eventLog before the task's fetch has returned a body
NoEvent == [t |-> "none", v |-> ""]

\* enrich_issue, write_csv and extract_enrichment not called on their own yet
NoWalk == [called |-> FALSE]
NoCsv == [called |-> FALSE]
NoParse == [called |-> FALSE]

\* The state before export is entered, for the given choices of --enrich and
\* --environment.
Start(enrichmentChoices, environments) ==
    /\ organization \in Organizations
    /\ project \in Projects
    /\ enrichments \in enrichmentChoices
    /\ environment \in environments
    /\ query_params = MainQueryParams(environment)
    /\ eventLog = <<>>
    /\ walkCall = NoWalk
    /\ csvCall = NoCsv
    /\ parseCall = NoParse
    /\ pc = "start"
    /\ session = "unopened"
    /\ closeCount = 0
    /\ page_count = 0
    /\ cursor = ""
    /\ issues = <<>>
    /\ task = <<>>
    /\ gatherExc = NoExc
    /\ exc = NoExc
    /\ fetchCall = NoFetch
    /\ stdout = <<>>
    /\ outcome = "running"
    /\ file = NoFile
    /\ writeCalls = <<>>
    /\ fetchLog = <<>>
    /\ pageLog = <<>>
    /\ raised = {}

\* Runs without --environment.  query_params is read only to build the query
\* of the list fetch; the runs with --environment are those of SpecQuery.
Init == Start(EnrichmentChoices, { <<>> })

config == << organization, project, enrichments, environment, query_params >>

\* the variables of the calls made outside a run of export
alone == << fetchCall, walkCall, csvCall, parseCall >>

\* print(...)
Line(text, arg) == [text |-> text, arg |-> arg]

\* an entry of fetchLog: a GET issued on the session
ListFetch(cur, query_str) ==
    [kind |-> "list", cursor |-> cur, id |-> Str(""), statsPeriod |-> "", query |-> query_str]
EventFetch(id) == [kind |-> "latest", cursor |-> "", id |-> id]

-----------------------------------------------------------------------------
(* export and fetch_issues *)

\* `async with aiohttp.ClientSession(...)` is entered and fetch_issues starts
ExportEnter ==
    /\ pc = "start"
    /\ session' = "open"
    /\ page_count' = 1
    /\ issues' = <<>>
    /\ cursor' = ""
    /\ pc' = "loop"
    /\ UNCHANGED << config, closeCount, task, eventLog, gatherExc, exc, alone,
                    stdout, outcome, file, writeCalls, fetchLog, pageLog, raised >>

\* Top of `while True`: the page is announced and its fetch issued
FetchPage ==
    /\ pc = "loop"
    /\ stdout' = Append(stdout, Line("Fetching issues page", <<page_count>>))
    /\ fetchLog' = Append(fetchLog, ListFetch(cursor, QueryStr(query_params)))
    /\ pc' = "await_page"
    /\ UNCHANGED << config, session, closeCount, page_count, cursor, issues,
                    task, eventLog, gatherExc, exc, alone, outcome, file,
                    writeCalls, pageLog, raised >>

\* Mutant of PageResponse: a list fetch that was denied is issued once more
PageResponseRetrying(response) ==
    /\ pc = "await_page"
    /\ LET fetched == Fetch(response) IN
       /\ IF fetched.exc.type # "none"
          THEN /\ IF Len(fetchLog) = Len(pageLog) + 1
                  THEN /\ pc' = "loop"
                       /\ UNCHANGED << exc, raised >>
                  ELSE /\ exc' = fetched.exc
                       /\ raised' = raised \cup {fetched.exc}
                       /\ pc' = "raise"
               /\ UNCHANGED << page_count, cursor, issues, pageLog >>
          ELSE LET step == PageStep(issues, cursor, fetched) IN
               /\ step.more => page_count < MaxPages
               /\ Len(step.issues) <= MaxIssues
               /\ pageLog' = Append(pageLog, [body |-> fetched.body, links |-> fetched.links])
               /\ issues' = step.issues
               /\ cursor' = step.cursor
               /\ IF step.exc.type # "none"
                  THEN /\ exc' = step.exc
                       /\ raised' = raised \cup {step.exc}
                       /\ pc' = "raise"
                       /\ UNCHANGED page_count
                  ELSE /\ UNCHANGED << exc, raised >>
                       /\ page_count' = IF step.more THEN page_count + 1 ELSE page_count
                       /\ pc' = IF step.more THEN "loop" ELSE "fetched"
    /\ UNCHANGED << config, session, closeCount, task, eventLog, gatherExc,
                    alone, stdout, outcome, file, writeCalls, fetchLog >>

\* The list fetch completes with `response`; the rest of the iteration runs
PageResponse(response) ==
    /\ pc = "await_page"
    /\ LET fetched == Fetch(response) IN
       /\ IF fetched.exc.type # "none"
          THEN /\ exc' = fetched.exc
               /\ raised' = raised \cup {fetched.exc}
               /\ pc' = "raise"
               /\ UNCHANGED << page_count, cursor, issues, pageLog >>
          ELSE LET step == PageStep(issues, cursor, fetched) IN
               \* bounds: the pages of a run and the records they carry
               /\ step.more => page_count < MaxPages
               /\ Len(step.issues) <= MaxIssues
               /\ pageLog' = Append(pageLog, [body |-> fetched.body, links |-> fetched.links])
               /\ issues' = step.issues
               /\ cursor' = step.cursor
               /\ IF step.exc.type # "none"
                  THEN /\ exc' = step.exc
                       /\ raised' = raised \cup {step.exc}
                       /\ pc' = "raise"
                       /\ UNCHANGED page_count
                  ELSE /\ UNCHANGED << exc, raised >>
                       /\ page_count' = IF step.more THEN page_count + 1 ELSE page_count
                       /\ pc' = IF step.more THEN "loop" ELSE "fetched"
    /\ UNCHANGED << config, session, closeCount, task, eventLog, gatherExc,
                    alone, stdout, outcome, file, writeCalls, fetchLog >>

\* fetch_issues has returned: `if enrichments:` launches one task per issue
\* (asyncio.ensure_future) and awaits their gather
StartEnrich ==
    /\ pc = "fetched"
    /\ IF enrichments # <<>>
       THEN /\ stdout' = Append(stdout, Line("Enriching issues with event data", <<Len(issues)>>))
            /\ task' = [i \in 1..Len(issues) |-> "created"]
            /\ eventLog' = [i \in 1..Len(issues) |-> NoEvent]
            /\ pc' = IF issues = <<>> THEN "write" ELSE "gather"
       ELSE /\ pc' = "write"
            /\ UNCHANGED << stdout, task, eventLog >>
    /\ UNCHANGED << config, session, closeCount, page_count, cursor, issues,
                    gatherExc, exc, alone, outcome, file, writeCalls, fetchLog,
                    pageLog, raised >>

-----------------------------------------------------------------------------
(* The enrichment tasks.  The event loop runs the first step of every task *)
(* in creation order before it handles any response.                       *)

Started == \A j \in 1..Len(task) : task[j] # "created"

\* A task fails: asyncio.gather's callback keeps the first exception
TaskFails(i, e) ==
    /\ task' = [task EXCEPT ![i] = "failed"]
    /\ raised' = raised \cup {e}
    /\ gatherExc' = IF gatherExc.type = "none" THEN e ELSE gatherExc

\* enrich_issue up to `await fetch(...)`
TaskStart(i) ==
    /\ pc = "gather"
    /\ task[i] = "created"
    /\ \A j \in 1..(i - 1) : task[j] # "created"
    /\ IF DHas(issues[i].v, "id")
       THEN /\ fetchLog' = Append(fetchLog, EventFetch(DGet(issues[i].v, "id")))
            /\ task' = [task EXCEPT ![i] = "fetching"]
            /\ UNCHANGED << raised, gatherExc >>
       ELSE /\ TaskFails(i, Unhandled("KeyError"))
            /\ UNCHANGED fetchLog
    /\ UNCHANGED << config, pc, session, closeCount, page_count, cursor, issues,
                    eventLog, exc, alone, stdout, outcome, file, writeCalls, pageLog >>

\* Mutant of TaskResponse: every task enriches the last record of the list
TaskResponseLateBound(i, response) ==
    /\ pc = "gather"
    /\ Started
    /\ task[i] = "fetching"
    /\ LET fetched == Fetch(response) IN
       /\ IF fetched.exc.type # "none"
          THEN /\ TaskFails(i, fetched.exc)
               /\ UNCHANGED << issues, eventLog >>
          ELSE LET done == EnrichIssue(issues[Len(issues)], fetched, enrichments) IN
               /\ issues' = [issues EXCEPT ![Len(issues)] = done.issue]
               /\ eventLog' = [eventLog EXCEPT ![i] = fetched.body]
               /\ IF done.exc.type # "none"
                  THEN TaskFails(i, done.exc)
                  ELSE /\ task' = [task EXCEPT ![i] = "done"]
                       /\ UNCHANGED << raised, gatherExc >>
    /\ UNCHANGED << config, pc, session, closeCount, page_count, cursor, exc,
                    alone, stdout, outcome, file, writeCalls, fetchLog, pageLog >>

\* The latest-event fetch of task i completes; the rest of enrich_issue runs
TaskResponse(i, response) ==
    /\ pc = "gather"
    /\ Started
    /\ task[i] = "fetching"
    /\ LET fetched == Fetch(response) IN
       /\ IF fetched.exc.type # "none"
          THEN /\ TaskFails(i, fetched.exc)
               /\ UNCHANGED << issues, eventLog >>
          ELSE LET done == EnrichIssue(issues[i], fetched, enrichments) IN
               /\ issues' = [issues EXCEPT ![i] = done.issue]
               /\ eventLog' = [eventLog EXCEPT ![i] = fetched.body]
               /\ IF done.exc.type # "none"
                  THEN TaskFails(i, done.exc)
                  ELSE /\ task' = [task EXCEPT ![i] = "done"]
                       /\ UNCHANGED << raised, gatherExc >>
    /\ UNCHANGED << config, pc, session, closeCount, page_count, cursor, exc,
                    alone, stdout, outcome, file, writeCalls, fetchLog, pageLog >>

\* Mutant of GatherResume: export resumes when the first task has completed
GatherResumeOnFirstCompleted ==
    /\ pc = "gather"
    /\ Started
    /\ \E j \in 1..Len(task) : task[j] \in {"done", "failed"}
    /\ exc' = gatherExc
    /\ pc' = IF gatherExc.type # "none" THEN "raise" ELSE "write"
    /\ UNCHANGED << config, session, closeCount, page_count, cursor, issues,
                    task, eventLog, gatherExc, alone, stdout, outcome, file,
                    writeCalls, fetchLog, pageLog, raised >>

\* `await asyncio.gather(...)` resumes export: with the first exception as
\* soon as one task has failed, with the results once all are done
GatherResume ==
    /\ pc = "gather"
    /\ Started
    /\ \/ gatherExc.type # "none"
       \/ \A j \in 1..Len(task) : task[j] = "done"
    /\ exc' = gatherExc
    /\ pc' = IF gatherExc.type # "none" THEN "raise" ELSE "write"
    /\ UNCHANGED << config, session, closeCount, page_count, cursor, issues,
                    task, eventLog, gatherExc, alone, stdout, outcome, file,
                    writeCalls, fetchLog, pageLog, raised >>

-----------------------------------------------------------------------------
(* Serialisation and the ways out of export *)

\* write_csv(outfile, issues)
WriteStep ==
    /\ pc = "write"
    /\ LET outfile == OutFileName(organization, project)
           written == WriteCsv(outfile, issues)
       IN  /\ writeCalls' = Append(writeCalls, [filename |-> outfile, issues |-> issues])
           /\ file' = [exists |-> TRUE, name |-> written.file.name,
                       lines |-> written.file.lines]
           /\ IF written.exc.type # "none"
              THEN /\ exc' = written.exc
                   /\ raised' = raised \cup {written.exc}
                   /\ pc' = "raise"
              ELSE /\ pc' = "report"
                   /\ UNCHANGED << exc, raised >>
    /\ UNCHANGED << config, session, closeCount, page_count, cursor, issues,
                    task, eventLog, gatherExc, alone, stdout, outcome, fetchLog,
                    pageLog >>

\* __aexit__ of the session
CloseSession ==
    /\ session' = "closed"
    /\ closeCount' = closeCount + 1

\* print(f"Exported to {outfile}"), and export returns
ReportSuccess ==
    /\ pc = "report"
    /\ stdout' = Append(stdout, Line("Exported to", OutFileName(organization, project)))
    /\ CloseSession
    /\ outcome' = "success"
    /\ pc' = "done"
    /\ UNCHANGED << config, page_count, cursor, issues, task, eventLog,
                    gatherExc, exc, alone, file, writeCalls, fetchLog, pageLog,
                    raised >>

\* An exception leaves the try block: `except Sentry2CSVException` prints and
\* calls sys.exit(1); any other exception propagates.  Either way the
\* `async with` block is left and the event loop stops with export.
HandleFailure ==
    /\ pc = "raise"
    /\ IF IsHandled(exc)
       THEN /\ stdout' = Append(stdout, Line("Export failed.", exc.message))
            /\ outcome' = "exit1"
       ELSE /\ outcome' = exc.type
            /\ UNCHANGED stdout
    /\ CloseSession
    /\ pc' = "done"
    /\ UNCHANGED << config, page_count, cursor, issues, task, eventLog,
                    gatherExc, exc, alone, file, writeCalls, fetchLog, pageLog,
                    raised >>

Next ==
    \/ ExportEnter
    \/ FetchPage
    \/ \E response \in ListResponses : PageResponse(response)
    \/ StartEnrich
    \/ \E i \in 1..Len(task) : TaskStart(i)
    \/ \E i \in 1..Len(task) : \E response \in EventResponses : TaskResponse(i, response)
    \/ GatherResume
    \/ WriteStep
    \/ ReportSuccess
    \/ HandleFailure

Spec == Init /\ [][Next]_vars

-----------------------------------------------------------------------------
(* The runs with and without --environment, no enrichment configured *)

InitQuery == Start({ <<>> }, Environments)

NextQuery ==
    \/ ExportEnter
    \/ FetchPage
    \/ \E response \in ListResponses : PageResponse(response)
    \/ StartEnrich
    \/ WriteStep
    \/ ReportSuccess
    \/ HandleFailure

SpecQuery == InitQuery /\ [][NextQuery]_vars

-----------------------------------------------------------------------------
(* fetch taken alone: one call on an arbitrary response *)

FetchCall(response) ==
    /\ fetchCall' = [response |-> response, result |-> Fetch(response)]
    /\ UNCHANGED << config, pc, session, closeCount, page_count, cursor, issues,
                    task, eventLog, gatherExc, exc, stdout, outcome, file,
                    writeCalls, fetchLog, pageLog, raised, walkCall, csvCall,
                    parseCall >>

NextFetch == \E response \in Responses : FetchCall(response)

SpecFetch == Init /\ [][NextFetch]_vars

-----------------------------------------------------------------------------
(* enrich_issue called on its own, on any event and any Enrichment list *)

\* The state in which a function is called on its own: no run of export
InitCall == Start({ <<>> }, { <<>> })

Segments == {"a", "b"}

\* Values an event carries that are no mappings
Scalars == { Num(5), Num(0), Bool("false"), Str("s"), Lst(<<>>), Null }

\* The values nested at most d mappings deep
RECURSIVE Values(_)
Values(d) ==
    IF d = 0 THEN Scalars \cup {Obj(<<>>)}
    ELSE Scalars \cup {Obj(<<>>)}
         \cup { Obj(<< <<k, v>> >>) : k \in Segments, v \in Values(d - 1) }

\* The latest events: mappings, one of them with two keys
WalkEvents ==
    { e \in Values(MaxPathLen) : IsDict(e) }
    \cup { Obj(<< <<"a", Num(1)>>, <<"b", Obj(<< <<"a", Num(2)>> >>)>> >>) }

WalkPaths == UNION { [1..n -> Segments] : n \in 1..MaxPathLen }

\* One Enrichment, or two with different labels
WalkEnrichments ==
    { <<Enrichment("Version", p)>> : p \in WalkPaths }
    \cup { <<Enrichment("Version", p), Enrichment("Build", <<"b">>)>> : p \in WalkPaths }

\* enrich_issue(session, issue, enrichments), once, with `event` as the
\* latest event
WalkCall ==
    /\ ~walkCall.called
    /\ \E event \in WalkEvents : \E enrs \in WalkEnrichments :
          walkCall' = [called |-> TRUE, issue |-> IssueA, event |-> event, enrs |-> enrs,
                       result |-> EnrichIssue(IssueA, [body |-> event], enrs)]
    /\ UNCHANGED << config, pc, session, closeCount, page_count, cursor, issues,
                    task, eventLog, gatherExc, exc, stdout, outcome, file,
                    writeCalls, fetchLog, pageLog, raised, fetchCall, csvCall,
                    parseCall >>

NextWalk == WalkCall

SpecWalk == InitCall /\ [][NextWalk]_vars

-----------------------------------------------------------------------------
(* write_csv called on its own, on any list of records *)

\* A key the record does not carry
NoKey == [t |-> "absent", v |-> ""]

TypeTags == { Str("error"), Str("csp"), Str("default"), Str("transaction"), NoKey }

FullMetadata == Obj(<< <<"type", Str("warning")>>, <<"value", Str("explanation")>> >>)

Metadatas ==
    { NoKey, Obj(<<>>), FullMetadata,
      Obj(<< <<"value", Str("v")>> >>),
      Obj(<< <<"message", Str("m")>> >>),
      Obj(<< <<"title", Str("t")>> >>) }

BaseFields ==
    << <<"culprit", Str("X")>>, <<"count", Num(123)>>, <<"userCount", Num(3)>>,
       <<"permalink", Str("L")>> >>

\* The record with the given type tag and metadata (either may be absent) and
\* the four other fields but `drop`
MakeRecord(ty, md, drop) ==
    Obj((IF ty = NoKey THEN <<>> ELSE << <<"type", ty>> >>)
        \o (IF md = NoKey THEN <<>> ELSE << <<"metadata", md>> >>)
        \o SelectSeq(BaseFields, LAMBDA kv : kv[1] # drop))

CsvPool ==
    { MakeRecord(ty, md, "") : ty \in TypeTags, md \in Metadatas }
    \cup { MakeRecord(Str("error"), FullMetadata, f) :
              f \in {"culprit", "count", "userCount", "permalink"} }
    \cup { MakeRecord(Str("transaction"), NoKey, f) :
              f \in {"culprit", "count", "userCount", "permalink"} }

\* The side-maps of a list: none, two labels (in either insertion order), or
\* a label that collides with a fixed column
SideMaps == {"none", "labels", "collision"}

\* Record i of a list, with the side-map of the list's kind
WithSideMap(rec, kind, i) ==
    IF kind = "none" THEN rec
    ELSE IF kind = "labels"
    THEN Obj(Append(rec.v,
            <<"_enrichments",
              Obj(IF i % 2 = 1
                  THEN << <<"Extra Field", Num(i)>>, <<"Another Field", Str("XYZ")>> >>
                  ELSE << <<"Another Field", Str("XYZ")>>, <<"Extra Field", Num(i)>> >>)>>))
    ELSE Obj(Append(rec.v,
            <<"_enrichments",
              Obj(<< <<"Error", Str("override")>>, <<"Extra Field", Num(i)>> >>)>>))

\* A list write_csv is called on: the records of `list`, with side-maps of
\* the one kind, which have the same key set
CsvInput(list, kind) == [i \in 1..Len(list) |-> WithSideMap(list[i], kind, i)]

\* write_csv(filename, issues), once, on a list of up to MaxRecords records
CsvCall ==
    /\ ~csvCall.called
    /\ \E n \in 0..MaxRecords : \E list \in [1..n -> CsvPool] : \E kind \in SideMaps :
          csvCall' = [called |-> TRUE, filename |-> OutFileName("acme", "web"),
                      issues |-> CsvInput(list, kind),
                      result |-> WriteCsv(OutFileName("acme", "web"), CsvInput(list, kind))]
    /\ UNCHANGED << config, pc, session, closeCount, page_count, cursor, issues,
                    task, eventLog, gatherExc, exc, stdout, outcome, file,
                    writeCalls, fetchLog, pageLog, raised, fetchCall, walkCall,
                    parseCall >>

NextCsv == CsvCall

SpecCsv == InitCall /\ [][NextCsv]_vars

-----------------------------------------------------------------------------
(* extract_enrichment called on its own.  A string is the sequence of its *)
(* characters.                                                            *)

\* s.split(sep): the pieces of s between the occurrences of the character sep
RECURSIVE Split(_, _)
Split(s, sep) ==
    IF \A i \in 1..Len(s) : s[i] # sep THEN <<s>>
    ELSE LET k == CHOOSE i \in 1..Len(s) : s[i] = sep /\ \A j \in 1..(i - 1) : s[j] # sep
         IN  <<SubSeq(s, 1, k - 1)>> \o Split(SubSeq(s, k + 1, Len(s)), sep)

\* Mutant of FromMappingString: the label is taken before the "="
FromMappingStringSwapped(mapping) ==
    LET parts == Split(mapping, "=") IN
    IF Len(parts) # 2
    THEN [exc |-> Unhandled("ValueError"), value |-> Enrichment(<<>>, <<>>)]
    ELSE [exc |-> NoExc, value |-> Enrichment(parts[1], Split(parts[2], "."))]

\* Enrichment.from_mapping_string: [exc, value].  Unpacking the pieces into
\* two names raises ValueError unless there are exactly two.
FromMappingString(mapping) ==
    LET parts == Split(mapping, "=") IN
    IF Len(parts) # 2
    THEN [exc |-> Unhandled("ValueError"), value |-> Enrichment(<<>>, <<>>)]
    ELSE [exc |-> NoExc, value |-> Enrichment(parts[2], Split(parts[1], "."))]

\* [Enrichment.from_mapping_string(mapping) for mapping in todo], after `done`
RECURSIVE FromMappingStrings(_, _)
FromMappingStrings(todo, done) ==
    IF todo = <<>> THEN [exc |-> NoExc, value |-> done]
    ELSE LET one == FromMappingString(Head(todo)) IN
         IF one.exc.type # "none" THEN [exc |-> one.exc, value |-> <<>>]
         ELSE FromMappingStrings(Tail(todo), Append(done, one.value))

\* args.enrich: None, or the text given
None == [given |-> FALSE, text |-> <<>>]
Text(s) == [given |-> TRUE, text |-> s]

\* extract_enrichment(mappings): [exc, value]
ExtractEnrichment(mappings) ==
    IF ~mappings.given THEN [exc |-> NoExc, value |-> <<>>]
    ELSE FromMappingStrings(Split(mappings.text, ","), <<>>)

Chars == {"a", "b", ".", "=", ","}

MappingStrings == UNION { [1..n -> Chars] : n \in 0..MaxMappingLen }

\* enrichments = extract_enrichment(args.enrich), once
ParseCall ==
    /\ ~parseCall.called
    /\ \E mappings \in {None} \cup { Text(s) : s \in MappingStrings } :
          parseCall' = [called |-> TRUE, mappings |-> mappings,
                        result |-> ExtractEnrichment(mappings)]
    /\ UNCHANGED << config, pc, session, closeCount, page_count, cursor, issues,
                    task, eventLog, gatherExc, exc, stdout, outcome, file,
                    writeCalls, fetchLog, pageLog, raised, fetchCall, walkCall,
                    csvCall >>

NextParse == ParseCall

SpecParse == InitCall /\ [][NextParse]_vars

-----------------------------------------------------------------------------
(* Vocabulary of the properties *)

\* The records of the logged pages, in page order
RECURSIVE ConcatPages(_)
ConcatPages(log) ==
    IF log = <<>> THEN <<>> ELSE Head(log).body.v \o ConcatPages(Tail(log))

NextOf(links) == DGetOr(links, "next", <<>>)

\* next.results is the string "true"
ResultsTrue(links) == DHas(NextOf(links), "results") /\ DGet(NextOf(links), "results") = "true"

HasCursor(links) == DHas(NextOf(links), "cursor")

\* A page of records / a body reporting an error
IsPage(p) == IsList(p.body)
IsErrorBody(p) == IsDict(p.body) /\ DHas(p.body.v, "detail")

ListFetches == SelectSeq(fetchLog, LAMBDA f : f.kind = "list")
EventFetches == SelectSeq(fetchLog, LAMBDA f : f.kind = "latest")

Paginating == pc \in {"loop", "await_page"}

\* The exception in export comes from the pagination
PaginationFailed == pc \in {"raise", "done"} /\ exc.type # "none"
                    /\ gatherExc.type = "none" /\ writeCalls = <<>>

FailureLines == SelectSeq(stdout, LAMBDA l : l.text = "Export failed.")
SuccessLines == SelectSeq(stdout, LAMBDA l : l.text = "Exported to")

-----------------------------------------------------------------------------
(* C1 *)

\* Pages 1..k-1 are pages of records with next.results = "true" and a cursor,
\* page k is a page of records without next.results = "true"
CompletePages(log) ==
    /\ log # <<>>
    /\ \A i \in 1..Len(log) : IsPage(log[i])
    /\ \A i \in 1..(Len(log) - 1) : ResultsTrue(log[i].links) /\ HasCursor(log[i].links)
    /\ ~ResultsTrue(log[Len(log)].links)

\* C1: when the list endpoint has answered k pages, pages 1..k-1 with
\* next.results = "true" and a cursor and page k without, fetch_issues has
\* returned after exactly k fetches, the first with cursor "" and fetch i+1 with
\* the next.cursor of page i, and what it returns is the concatenation of the
\* k pages' records in page order.
C1_PaginationConcatenates ==
    /\ CompletePages(pageLog) =>
          /\ ~Paginating /\ ~PaginationFailed
          /\ Len(ListFetches) = Len(pageLog)
    /\ pc = "fetched" =>
          /\ CompletePages(pageLog)
          /\ fetchLog = ListFetches
          /\ Len(fetchLog) = Len(pageLog)
          /\ page_count = Len(pageLog)
          /\ fetchLog[1].cursor = ""
          /\ \A i \in 1..(Len(pageLog) - 1) :
                fetchLog[i + 1].cursor = DGet(NextOf(pageLog[i].links), "cursor")
          /\ issues = ConcatPages(pageLog)

\* Two pages with different records have been fetched, the second with the
\* first one's cursor, and fetch_issues has returned
C1_Witness ==
    /\ pc = "fetched"
    /\ Len(pageLog) = 2
    /\ pageLog[1].body.v = <<IssueA>>
    /\ pageLog[2].body.v = <<IssueB>>
    /\ fetchLog[2].cursor = "c2"

-----------------------------------------------------------------------------
(* C2 *)

\* A page of records after which the loop breaks
StoppingPage(p) == IsPage(p) /\ ~ResultsTrue(p.links)

\* fetch_issues stops after page i: it is the last one, and no fetch follows it
StopsAfter(i) ==
    /\ i = Len(pageLog)
    /\ Len(ListFetches) = i
    /\ ~Paginating

\* fetch_issues continues after page i: page i+1 is fetched, or about to be
ContinuesAfter(i) ==
    \/ i < Len(pageLog)
    \/ i = Len(pageLog) /\ pc = "loop" /\ Len(ListFetches) = i
    \/ i = Len(pageLog) /\ pc \in {"await_page", "raise", "done"} /\ Len(ListFetches) = i + 1

\* C2 as stated: fetch_issues stops after the first page without
\* next.results = "true" and fetches nothing after it, and continues after every
\* page whose next.results is "true"; so the loop is left only on a stopping page.
C2_Original ==
    /\ \A i \in 1..Len(pageLog) : StoppingPage(pageLog[i]) => StopsAfter(i)
    /\ \A i \in 1..Len(pageLog) :
          IsPage(pageLog[i]) /\ ResultsTrue(pageLog[i].links) => ContinuesAfter(i)
    /\ pc = "fetched" => StoppingPage(pageLog[Len(pageLog)])

\* C2 as amended: fetch_issues stops after the first page without
\* next.results = "true" and fetches nothing after it; it continues after every
\* page whose next.results is "true" and whose next relation carries a cursor;
\* after a page with next.results = "true" and no cursor it fails with a
\* KeyError and fetches nothing more.  The loop is left normally only on a
\* stopping page.
C2_StopsOnLastPage ==
    /\ \A i \in 1..Len(pageLog) : StoppingPage(pageLog[i]) => StopsAfter(i)
    /\ \A i \in 1..Len(pageLog) :
          IsPage(pageLog[i]) /\ ResultsTrue(pageLog[i].links) =>
             IF HasCursor(pageLog[i].links)
             THEN ContinuesAfter(i)
             ELSE /\ StopsAfter(i)
                  /\ PaginationFailed
                  /\ exc = Unhandled("KeyError")
    /\ pc = "fetched" => StoppingPage(pageLog[Len(pageLog)])

\* A first page with next.results = "true" was followed by a second fetch, whose
\* page has results = "True" and ended the loop
C2_Witness ==
    /\ pc = "fetched"
    /\ Len(pageLog) = 2
    /\ ResultsTrue(pageLog[1].links)
    /\ DGetOr(NextOf(pageLog[2].links), "results", "") = "True"

-----------------------------------------------------------------------------
(* C3 *)

\* C3: when a decoded list-endpoint response is a mapping with a `detail` key,
\* on the first page or a later one, ApiError with that detail is raised and the
\* run ends on it (one failure line with that message, exit status 1): no page
\* is fetched after it, no latest-event fetch is issued, and write_csv is never
\* called, so the records of the earlier pages go nowhere.
C3_ApiErrorAborts ==
    \A i \in 1..Len(pageLog) :
       IsErrorBody(pageLog[i]) =>
          /\ i = Len(pageLog)
          /\ pc \in {"raise", "done"}
          /\ exc = Sentry2CSVException(ApiErrorMessage(DGet(pageLog[i].body.v, "detail")))
          /\ Len(fetchLog) = i
          /\ EventFetches = <<>>
          /\ task = <<>>
          /\ writeCalls = <<>>
          /\ ~file.exists
          /\ pc = "done" =>
                /\ outcome = "exit1"
                /\ FailureLines = <<Line("Export failed.", exc.message)>>
                /\ SuccessLines = <<>>

\* The error body came on the second page, after a first page with a record,
\* and the run has ended
C3_Witness ==
    /\ pc = "done"
    /\ Len(pageLog) = 2
    /\ pageLog[1].body.v = <<IssueA>>
    /\ IsErrorBody(pageLog[2])

-----------------------------------------------------------------------------
(* C4 *)

\* C4: fetch raises the access-denied error for every response with status 403,
\* whatever its body, without decoding the body; for every other status it
\* raises nothing and returns the decoded body with the response's links, which
\* are empty when the response has no Link header.
C4_FetchClassifies ==
    fetchCall # NoFetch =>
       LET response == fetchCall.response
           result == fetchCall.result
       IN  IF response.status = 403
           THEN /\ result.exc = Sentry2CSVException(AccessDeniedMessage)
                /\ ~result.decoded
           ELSE /\ result.exc = NoExc
                /\ result.decoded
                /\ result.body = response.body
                /\ result.links = response.links
                /\ response.links = <<>> => result.links = <<>>

\* fetch was given a 403 whose body is a page of records with a next link
C4_Witness ==
    /\ fetchCall.response.status = 403
    /\ fetchCall.response.body = Lst(<<IssueA>>)
    /\ fetchCall.response.links # <<>>
    /\ fetchCall.result.exc.type = "Sentry2CSVException"

-----------------------------------------------------------------------------
(* C5 *)

\* export has resumed from `await asyncio.gather(...)`
EnrichmentEnded == task # <<>> /\ pc \in {"write", "raise", "report", "done"}

\* C5: when the enrichment phase ends, every enrichment task has completed or
\* failed, none is still waiting for its fetch; and when a task has failed the
\* run fails and write_csv is never called.
C5_PhaseEndsWithNoTaskInFlight ==
    /\ EnrichmentEnded => \A i \in 1..Len(task) : task[i] \in {"done", "failed"}
    /\ pc = "done" /\ (\E i \in 1..Len(task) : task[i] = "failed") =>
          outcome # "success" /\ writeCalls = <<>>

-----------------------------------------------------------------------------
(* C6 *)

\* C6: at the end of a run the output file is either not written at all or
\* holds the header and one row for every record.
C6_FileAllOrNothing ==
    pc = "done" => \/ ~file.exists
                   \/ Len(file.lines) = 1 + Len(issues)

-----------------------------------------------------------------------------
(* C7 *)

HandledRaised == { e \in raised : IsHandled(e) }

\* C7: when a handled failure (Sentry2CSVException) has been raised at any stage
\* of the run, the run ends with exactly one failure line, carrying the message
\* of a handled failure that was raised, exit status 1, and no success line.
C7_HandledFailureReportedOnce ==
    pc = "done" /\ HandledRaised # {} =>
       /\ Len(FailureLines) = 1
       /\ \E e \in HandledRaised : FailureLines[1].arg = e.message
       /\ outcome = "exit1"
       /\ SuccessLines = <<>>

-----------------------------------------------------------------------------
(* C8 *)

\* C8: a response of unexpected shape (a list-endpoint body that is neither a
\* list nor a mapping with `detail`, a latest-event body that is no mapping)
\* ends the run like the handled failures: one failure line and exit status 1,
\* no exception leaving export.
C8_UnexpectedShapeHandled ==
    pc = "done" /\ (\E e \in raised : e.type = "AssertionError") =>
       /\ outcome = "exit1"
       /\ Len(FailureLines) = 1

-----------------------------------------------------------------------------
(* C9 *)

\* C9: on every way out of export the session is released exactly once, and
\* once it is released no fetch is in flight on it.
C9_SessionReleasedAfterLastUse ==
    /\ closeCount <= 1
    /\ pc = "done" => session = "closed" /\ closeCount = 1
    /\ session = "closed" =>
          /\ pc # "await_page"
          /\ \A i \in 1..Len(task) : task[i] # "fetching"

-----------------------------------------------------------------------------
(* C10 *)

\* The record as the list endpoint gave it
WithoutSideMap(issue) == Obj(SelectSeq(issue.v, LAMBDA kv : kv[1] # "_enrichments"))

\* C10: no latest-event fetch is issued before the last list page has been
\* received; write_csv is called at most once, only after the pagination and,
\* with enrichments configured, after every enrichment task has completed
\* successfully, with the name {organization}-{project}-export.csv and the full
\* record list in pagination order.  Without enrichments no latest-event fetch
\* is issued and write_csv gets the records as they were fetched.
C10_StagesOrdered ==
    /\ EventFetches # <<>> =>
          /\ ~Paginating
          /\ CompletePages(pageLog)
          /\ Len(ListFetches) = Len(pageLog)
          /\ fetchLog = ListFetches \o EventFetches
    /\ Len(writeCalls) <= 1
    /\ writeCalls # <<>> =>
          /\ CompletePages(pageLog)
          /\ enrichments # <<>> =>
                /\ Len(task) = Len(issues)
                /\ \A i \in 1..Len(task) : task[i] = "done"
                /\ Len(EventFetches) = Len(issues)
          /\ writeCalls[1].filename = <<organization, "-", project, "-export.csv">>
          /\ writeCalls[1].issues = issues
          /\ Len(issues) = Len(ConcatPages(pageLog))
          /\ \A i \in 1..Len(issues) : WithoutSideMap(issues[i]) = ConcatPages(pageLog)[i]
    /\ enrichments = <<>> =>
          /\ EventFetches = <<>>
          /\ task = <<>>
          /\ writeCalls # <<>> => writeCalls[1].issues = ConcatPages(pageLog)

\* A run with enrichments over two pages of one record each has ended in success
C10_Witness ==
    /\ pc = "done"
    /\ outcome = "success"
    /\ enrichments # <<>>
    /\ Len(pageLog) = 2
    /\ Len(writeCalls[1].issues) = 2
    /\ Len(EventFetches) = 2

-----------------------------------------------------------------------------
(* C11 *)

\* The outcome of following a path where a segment cannot be followed
Missing == [t |-> "missing", v |-> ""]

\* The value reached from `value` by following the segments of `path` in
\* order through nested mappings
RECURSIVE Reach(_, _)
Reach(value, path) ==
    IF path = <<>> THEN value
    ELSE IF IsDict(value) /\ DHas(value.v, Head(path))
    THEN Reach(DGet(value.v, Head(path)), Tail(path))
    ELSE Missing

\* What an enrichment over `path` is to store for `event`
Stored(event, path) ==
    LET r == Reach(event, path)
    IN  IF r.t = "missing" \/ IsEmptyDict(r) THEN Str("") ELSE r

\* The side-map the configured enrichments give for `event`
SideMapFor(event) ==
    Obj([k \in 1..Len(enrichments) |->
            <<enrichments[k].csv_field, Stored(event, enrichments[k].sentry_path)>>])

\* Record i of the pagination, enriched from the event its own task was given
OwnRecord(i) ==
    Obj(DPut(ConcatPages(pageLog)[i].v, "_enrichments", SideMapFor(eventLog[i])))

\* The records write_csv is to get, determined by the remote data alone
OwnRecords ==
    IF enrichments = <<>> THEN ConcatPages(pageLog)
    ELSE [i \in 1..Len(ConcatPages(pageLog)) |-> OwnRecord(i)]

\* C11: whatever the order in which the enrichment tasks complete, a record
\* whose task is done is the paginated record plus the side-map computed from
\* that record's own latest event, and the content of the output file is the
\* serialisation of the records in pagination order, each with the values of
\* its own event: the content is a function of the remote data and the
\* configuration.
C11_FileIndependentOfInterleaving ==
    /\ \A i \in 1..Len(task) : task[i] = "done" => issues[i] = OwnRecord(i)
    /\ file.exists =>
          /\ file.lines = WriteCsv(file.name, OwnRecords).file.lines
          /\ \A r \in 2..Len(file.lines) :
                file.lines[r][7] = DGet(ConcatPages(pageLog)[r - 1].v, "permalink")

\* Two records enriched from different events, and the file written with a
\* row for each carrying the value of its own event
C11_Witness ==
    /\ outcome = "success"
    /\ Len(task) = 2
    /\ eventLog[1] # eventLog[2]
    /\ Len(file.lines) = 3
    /\ file.lines[2][8] # file.lines[3][8]

-----------------------------------------------------------------------------
(* C12 *)

\* Task i takes a step
TaskSteps(i) == task'[i] # task[i]

\* C12: a step of the enrichment task of record i leaves every field the
\* record had with its value and in its place, adds at most the side-map,
\* leaves every other record and the Enrichment list unchanged; when the
\* task's fetch fails (no event is obtained) record i is left as it was.
C12_TaskChangesOwnSideMapOnly ==
    [][ \A i \in 1..Len(task) : TaskSteps(i) =>
           /\ enrichments' = enrichments
           /\ Len(issues') = Len(issues)
           /\ \A j \in 1..Len(issues) : j # i => issues'[j] = issues[j]
           /\ WithoutSideMap(issues'[i]) = WithoutSideMap(issues[i])
           /\ eventLog'[i] = NoEvent => issues'[i] = issues[i]
      ]_vars

\* Of two records the first has been given its side-map by its task and the
\* second is as it was fetched, its task's fetch having failed
C12_Witness ==
    /\ task = <<"done", "failed">>
    /\ DHas(issues[1].v, "_enrichments")
    /\ WithoutSideMap(issues[1]) = ConcatPages(pageLog)[1]
    /\ eventLog[2] = NoEvent
    /\ issues[2] = ConcatPages(pageLog)[2]

-----------------------------------------------------------------------------
(* C13 *)

\* The side-map enrich_issue left on the record of walkCall
WalkSide == DGet(walkCall.result.issue.v, "_enrichments").v

\* No proper prefix of `path` leads from `event` to a value that is no mapping
ThroughMappings(event, path) ==
    \A n \in 1..(Len(path) - 1) : Reach(event, SubSeq(path, 1, n)).t \in {"missing", "obj"}

\* C13: for every latest event that is a mapping and every Enrichment,
\* enrich_issue completes and the value stored under the Enrichment's label is
\* the value reached by following the path through nested mappings: the empty
\* string when a segment is missing or the walk ends on an empty mapping, every
\* other value (0, false, an empty list, a non-empty structure) unchanged.
C13_StoresValueReached ==
    walkCall.called =>
       /\ walkCall.result.exc = NoExc
       /\ \A k \in 1..Len(walkCall.enrs) :
             /\ DHas(WalkSide, walkCall.enrs[k].csv_field)
             /\ DGet(WalkSide, walkCall.enrs[k].csv_field)
                   = Stored(walkCall.event, walkCall.enrs[k].sentry_path)

\* The same on the events that hold a mapping, or nothing, wherever the path
\* goes on: there enrich_issue stores the value reached
StoresValueReachedThroughMappings ==
    walkCall.called
    /\ (\A k \in 1..Len(walkCall.enrs) :
           ThroughMappings(walkCall.event, walkCall.enrs[k].sentry_path))
    => C13_StoresValueReached

-----------------------------------------------------------------------------
(* Vocabulary of the properties of write_csv *)

CsvRecs == csvCall.issues
CsvLines == csvCall.result.file.lines
CsvExc == csvCall.result.exc

Has(rec, field) == DHas(rec.v, field)
TypeIs(rec, tag) == Has(rec, "type") /\ DGet(rec.v, "type") = Str(tag)
MetaHas(rec, field) == Has(rec, "metadata") /\ DHas(DGet(rec.v, "metadata").v, field)
Meta(rec, field) == DGet(DGet(rec.v, "metadata").v, field)

\* The record lacks one of the fields the serializer names as required
LacksRequired(rec) ==
    \/ \E f \in {"culprit", "count", "userCount", "permalink"} : ~Has(rec, f)
    \/ TypeIs(rec, "error") /\ ~MetaHas(rec, "value")
    \/ TypeIs(rec, "csp") /\ ~MetaHas(rec, "message")

\* The record has every field its projection reads without a default: the tag,
\* the four plain fields and, for the three known tags, the metadata mapping
\* with `value` ("error") or `message` ("csp")
RequiredPresent(rec) ==
    /\ Has(rec, "type")
    /\ ~LacksRequired(rec)
    /\ TypeIs(rec, "default") => Has(rec, "metadata")

ExpectedError(rec) ==
    IF TypeIs(rec, "error")
    THEN IF MetaHas(rec, "type") THEN Meta(rec, "type") ELSE Str("error")
    ELSE DGet(rec.v, "type")

ExpectedDetails(rec) ==
    IF TypeIs(rec, "error") THEN Meta(rec, "value")
    ELSE IF TypeIs(rec, "csp") THEN Meta(rec, "message")
    ELSE IF TypeIs(rec, "default") /\ MetaHas(rec, "title") THEN Meta(rec, "title")
    ELSE Str("")

\* The cell of the record's row in the column called `name`
Column(rec, name) ==
    IF Has(rec, "_enrichments") /\ DHas(DGet(rec.v, "_enrichments").v, name)
    THEN DGet(DGet(rec.v, "_enrichments").v, name)
    ELSE IF name = "Error" THEN ExpectedError(rec)
    ELSE IF name = "Location" THEN DGet(rec.v, "culprit")
    ELSE IF name = "Details" THEN ExpectedDetails(rec)
    ELSE IF name = "Events" THEN DGet(rec.v, "count")
    ELSE IF name = "Users" THEN DGet(rec.v, "userCount")
    ELSE IF name = "Link" THEN DGet(rec.v, "permalink")
    ELSE Str("")

\* The row of the record under the header line `header`
ExpectedRow(rec, header) == [c \in 1..Len(header) |-> Column(rec, header[c].v)]

-----------------------------------------------------------------------------
(* C14 *)

\* The first record of the list that lacks a required field
FirstLacking == CHOOSE i \in 1..Len(CsvRecs) :
                    /\ LacksRequired(CsvRecs[i])
                    /\ \A j \in 1..(i - 1) : ~LacksRequired(CsvRecs[j])

\* C14: when a record of the list lacks culprit, count, userCount, permalink,
\* metadata.value (type "error") or metadata.message (type "csp"), write_csv
\* fails with the Sentry2CSVException whose message asks to run with -vv; no
\* row is written for the first such record or any record after it, and the
\* rows written are those of the records before it, none skipped.
C14_MissingFieldAbortsWrite ==
    csvCall.called /\ (\E i \in 1..Len(CsvRecs) : LacksRequired(CsvRecs[i])) =>
       /\ CsvExc.type = "Sentry2CSVException"
       /\ CsvExc.message = <<"Unexpected API response. Run with -vv to debug.">>
       /\ Len(CsvLines) <= FirstLacking
       /\ \A r \in 2..Len(CsvLines) : CsvLines[r] = ExpectedRow(CsvRecs[r - 1], CsvLines[1])

\* A complete record followed by one without permalink: the write has failed
\* after the first row
C14_Witness ==
    /\ csvCall.called
    /\ Len(CsvRecs) = 2
    /\ RequiredPresent(CsvRecs[1])
    /\ ~Has(CsvRecs[2], "permalink")
    /\ CsvExc.type = "Sentry2CSVException"
    /\ Len(CsvLines) = 2

-----------------------------------------------------------------------------
(* C15 *)

-----------------------------------------------------------------------------
(* C16 *)

SevenColumns ==
    << Str("Error"), Str("Location"), Str("Details"), Str("Events"), Str("Users"),
       Str("Notes"), Str("Link") >>

\* The keys of the first record's side-map, in insertion order
FirstSideKeys ==
    LET side == DGet(CsvRecs[1].v, "_enrichments").v
    IN  [k \in 1..Len(side) |-> Str(side[k][1])]

\* C16: the header is the seven fixed columns followed by the keys of the
\* first record's side-map in insertion order, and the seven columns alone
\* when the list is empty or its records carry no side-map; when write_csv
\* completes the file holds, after the header, exactly one row per record, in
\* record order.
C16_HeaderThenOneRowPerRecord ==
    csvCall.called =>
       /\ CsvLines # <<>>
       /\ CsvLines[1] = IF CsvRecs # <<>> /\ Has(CsvRecs[1], "_enrichments")
                        THEN SevenColumns \o FirstSideKeys
                        ELSE SevenColumns
       /\ CsvExc = NoExc =>
             /\ Len(CsvLines) = 1 + Len(CsvRecs)
             /\ \A i \in 1..Len(CsvRecs) :
                   CsvLines[i + 1] = ExpectedRow(CsvRecs[i], CsvLines[1])

\* Two records whose side-maps hold the same two labels in different orders:
\* nine columns in the first record's order and two rows
C16_Witness ==
    /\ csvCall.called
    /\ Len(CsvRecs) = 2
    /\ CsvExc = NoExc
    /\ CsvLines[1] = SevenColumns \o << Str("Extra Field"), Str("Another Field") >>
    /\ DKeys(DGet(CsvRecs[2].v, "_enrichments").v) = << "Another Field", "Extra Field" >>
    /\ Len(CsvLines) = 3
    /\ CsvLines[3][8] = Num(2)

-----------------------------------------------------------------------------
(* C20 *)

\* A record without a `type` key that has metadata.type, metadata.value and
\* the four plain fields
Untyped(rec) ==
    /\ ~Has(rec, "type")
    /\ MetaHas(rec, "type") /\ MetaHas(rec, "value")
    /\ \A f \in {"culprit", "count", "userCount", "permalink"} : Has(rec, f)

\* C20: write_csv does not fail on a record that has no `type` key but has
\* metadata {type: T, value: V}, culprit, count, userCount and permalink: in a
\* list of such records and of records with all their required fields (no
\* side-map naming the column Error) every record gets its row, that of such
\* a record with Error = T and Details = V.
C20_UntypedRecordWritten ==
    csvCall.called
    /\ (\A i \in 1..Len(CsvRecs) : Untyped(CsvRecs[i]) \/ RequiredPresent(CsvRecs[i]))
    /\ (\A i \in 1..Len(CsvRecs) :
           Has(CsvRecs[i], "_enrichments") =>
              ~DHas(DGet(CsvRecs[i].v, "_enrichments").v, "Error"))
    => /\ CsvExc = NoExc
       /\ Len(CsvLines) = 1 + Len(CsvRecs)
       /\ \A i \in 1..Len(CsvRecs) :
             Untyped(CsvRecs[i]) =>
                /\ CsvLines[i + 1][1] = Meta(CsvRecs[i], "type")
                /\ CsvLines[i + 1][3] = Meta(CsvRecs[i], "value")

-----------------------------------------------------------------------------
(* C19 *)

\* The filter of a run: is:unresolved, then the environment if one was given
ExpectedQuery ==
    IF environment = <<>> THEN "is:unresolved"
    ELSE "is:unresolved environment:" \o environment[1]

\* C19: every list fetch of a run has statsPeriod "" and the same query
\* string, which is the QueryParams rendered field:value in order with single
\* spaces between: is:unresolved alone when no environment was supplied,
\* is:unresolved environment:<name> when one was.  The fetches of a run differ
\* in the cursor only.
C19_SameFilterOnEveryPage ==
    \A k \in 1..Len(fetchLog) :
       fetchLog[k].kind = "list" =>
          /\ fetchLog[k].statsPeriod = ""
          /\ fetchLog[k].query = ExpectedQuery
          /\ fetchLog[k] = [fetchLog[1] EXCEPT !.cursor = fetchLog[k].cursor]

\* The second page of a run with --environment prod has been asked for
C19_Witness ==
    /\ environment = <<"prod">>
    /\ Len(ListFetches) = 2
    /\ ListFetches[1].cursor # ListFetches[2].cursor
    /\ ListFetches[2].query = "is:unresolved environment:prod"

-----------------------------------------------------------------------------
(* C17 *)

ParseText == parseCall.mappings.text
Parsed == parseCall.result.value

\* The positions that delimit the entries of the mapping string
EntryBounds == {0, Len(ParseText) + 1} \cup { i \in 1..Len(ParseText) : ParseText[i] = "," }

\* The pairs <<l, r>> of delimiters with an entry between them
Entries ==
    { lr \in EntryBounds \X EntryBounds :
         lr[1] < lr[2] /\ \A m \in EntryBounds : ~(lr[1] < m /\ m < lr[2]) }

\* The positions of "=" in the entry
Equals(lr) == { i \in (lr[1] + 1)..(lr[2] - 1) : ParseText[i] = "=" }

\* The entry has no "=", or nothing before its "="
NoEqualsOrEmptyPath(lr) == Equals(lr) = {} \/ (lr[1] + 1) \in Equals(lr)

\* C17: a mapping string with an entry that has no "=" or an empty path is
\* rejected by extract_enrichment, which main calls before export (no fetch
\* has been issued); so every Enrichment it returns has a non-empty path of
\* non-empty segments.
C17_MalformedMappingRejected ==
    parseCall.called /\ parseCall.mappings.given =>
       /\ fetchLog = <<>>
       /\ (\E lr \in Entries : NoEqualsOrEmptyPath(lr)) => parseCall.result.exc # NoExc
       /\ parseCall.result.exc = NoExc =>
             \A k \in 1..Len(Parsed) :
                /\ Parsed[k].sentry_path # <<>>
                /\ \A n \in 1..Len(Parsed[k].sentry_path) : Parsed[k].sentry_path[n] # <<>>

-----------------------------------------------------------------------------
(* C18 *)

\* Every entry of the mapping string has exactly one "="
WellFormed == \A lr \in Entries : Cardinality(Equals(lr)) = 1

\* The pieces with sep between them
RECURSIVE Glue(_, _)
Glue(pieces, sep) ==
    IF pieces = <<>> THEN <<>>
    ELSE IF Len(pieces) = 1 THEN pieces[1]
    ELSE pieces[1] \o <<sep>> \o Glue(Tail(pieces), sep)

\* The entry an Enrichment is written as: path.segments=label
Rendered(e) == Glue(e.sentry_path, ".") \o <<"=">> \o e.csv_field

Holds(s, c) == \E i \in 1..Len(s) : s[i] = c

\* C18: for a mapping string of n entries, each with exactly one "=",
\* extract_enrichment returns n Enrichments which, written path=label and
\* joined by commas in order, give the mapping string back, no label holding
\* "=" or "," and no segment holding ".", "=" or ",": entry i has as label the
\* text after its "=" and as path the text before it split on ".".  None
\* gives the empty list.
C18_EnrichmentsParsedInOrder ==
    parseCall.called =>
       /\ ~parseCall.mappings.given => parseCall.result = [exc |-> NoExc, value |-> <<>>]
       /\ parseCall.mappings.given /\ WellFormed =>
             /\ parseCall.result.exc = NoExc
             /\ Len(Parsed) = Cardinality(Entries)
             /\ Glue([k \in 1..Len(Parsed) |-> Rendered(Parsed[k])], ",") = ParseText
             /\ \A k \in 1..Len(Parsed) :
                   /\ ~Holds(Parsed[k].csv_field, "=") /\ ~Holds(Parsed[k].csv_field, ",")
                   /\ Parsed[k].sentry_path # <<>>
                   /\ \A n \in 1..Len(Parsed[k].sentry_path) :
                         \A c \in {".", "=", ","} : ~Holds(Parsed[k].sentry_path[n], c)

\* "a=b,b=a" has been parsed to the Enrichments (b, [a]) and (a, [b])
C18_Witness ==
    /\ parseCall.called
    /\ ParseText = <<"a", "=", "b", ",", "b", "=", "a">>
    /\ parseCall.result.exc = NoExc
    /\ Parsed = << Enrichment(<<"b">>, << <<"a">> >>), Enrichment(<<"a">>, << <<"b">> >>) >>

-----------------------------------------------------------------------------
(* C21 *)

\* C21: on every latest event that is a mapping and for every path,
\* enrich_issue does not fail and leaves a value under every label; where a
\* segment before the last leads to a value that is no mapping (a number, a
\* string, a boolean, a list, null) the value left is the empty string.
C21_WalkTotalOnMappings ==
    walkCall.called =>
       /\ walkCall.result.exc = NoExc
       /\ \A k \in 1..Len(walkCall.enrs) :
             /\ DHas(WalkSide, walkCall.enrs[k].csv_field)
             /\ ~ThroughMappings(walkCall.event, walkCall.enrs[k].sentry_path) =>
                   DGet(WalkSide, walkCall.enrs[k].csv_field) = Str("")

-----------------------------------------------------------------------------
(* C22 *)

\* The configured labels, in the order of the Enrichment list
Labels == [k \in 1..Len(enrichments) |-> enrichments[k].csv_field]

\* Enrichments are configured and the task of every record has completed
\* without failure
EnrichmentSucceeded ==
    /\ enrichments # <<>>
    /\ pc \in {"write", "report", "raise", "done"}
    /\ Len(task) = Len(issues)
    /\ \A i \in 1..Len(task) : task[i] = "done"

\* C22: once the enrichment phase has completed successfully every record has
\* a side-map whose keys are the configured labels in the order of the
\* Enrichment list; so when write_csv runs the header is the seven fixed
\* columns followed by those labels, every row has a cell for each of them,
\* and no row is refused for a key that is not in the header (ValueError).
C22_SideMapKeysAreTheLabels ==
    EnrichmentSucceeded =>
       /\ \A i \in 1..Len(issues) :
             /\ DHas(issues[i].v, "_enrichments")
             /\ DKeys(DGet(issues[i].v, "_enrichments").v) = Labels
       /\ Unhandled("ValueError") \notin raised
       /\ file.exists /\ issues # <<>> =>
             /\ file.lines[1] = SevenColumns \o [k \in 1..Len(Labels) |-> Str(Labels[k])]
             /\ \A r \in 1..Len(file.lines) : Len(file.lines[r]) = 7 + Len(Labels)

\* Two records, the first enriched from an event without the paths and the
\* second from one with them, written under a header of nine columns
C22_Witness ==
    /\ EnrichmentSucceeded
    /\ outcome = "success"
    /\ Len(issues) = 2
    /\ Len(file.lines) = 3
    /\ file.lines[1][8] = Str("Version") /\ file.lines[1][9] = Str("Build")
    /\ file.lines[2][8] = Str("") /\ file.lines[2][9] = Str("")
    /\ file.lines[3][8] = Num(5) /\ file.lines[3][9] = Num(13)

-----------------------------------------------------------------------------
(* C23 *)

\* The cursors of the list fetches issued so far, in order
ListCursors == [k \in 1..Len(ListFetches) |-> ListFetches[k].cursor]

\* The cursors the list endpoint has handed out with next.results = "true"
HandedOut ==
    SelectSeq(pageLog, LAMBDA p : IsPage(p) /\ ResultsTrue(p.links) /\ HasCursor(p.links))

\* The remote keeps its pages apart: no cursor is handed out twice, and none
\* is the empty cursor of the first fetch
FreshCursors ==
    \A i \in 1..Len(HandedOut) :
       /\ DGet(NextOf(HandedOut[i].links), "cursor") # ""
       /\ \A j \in 1..(i - 1) :
             DGet(NextOf(HandedOut[j].links), "cursor")
                # DGet(NextOf(HandedOut[i].links), "cursor")

\* The records whose task has reached its fetch, in list order
FetchedRecords ==
    SelectSeq([i \in 1..Len(task) |-> i],
              LAMBDA i : task[i] # "created" /\ DHas(issues[i].v, "id"))

\* fetch has raised
FetchFailed == Sentry2CSVException(AccessDeniedMessage) \in raised

\* One list fetch per page, one latest-event fetch per record
FetchedOnce ==
    /\ Len(ListFetches) \in {Len(pageLog), Len(pageLog) + 1}
    /\ ListCursors = <<>> \/ ListCursors[1] = ""
    /\ \A k \in 2..Len(ListFetches) :
          ListCursors[k] = DGet(NextOf(pageLog[k - 1].links), "cursor")
    /\ FreshCursors =>
          \A k \in 1..Len(ListCursors) : \A l \in 1..(k - 1) : ListCursors[l] # ListCursors[k]
    /\ EventFetches =
          [k \in 1..Len(FetchedRecords) |-> EventFetch(DGet(issues[FetchedRecords[k]].v, "id"))]
    /\ Len(EventFetches) <= Len(issues)
    /\ enrichments = <<>> => EventFetches = <<>>
    /\ outcome = "success" /\ enrichments # <<>> => Len(EventFetches) = Len(issues)

\* C23: no request is issued twice.  The list fetches are one per page, each
\* with the cursor the page before handed out, so that no cursor is fetched
\* twice as long as the remote hands none out twice; the latest-event fetches
\* are one per record whose task has started, none without enrichments and
\* exactly one per record in a successful run with enrichments; and once a
\* fetch has failed no step issues another fetch.
C23_NoRequestRetried ==
    /\ []FetchedOnce
    /\ [][FetchFailed => fetchLog' = fetchLog]_vars

\* Two pages of one record each have been fetched with different cursors and
\* both records enriched, each after one latest-event fetch of its own; no
\* fetch has failed and write_csv is about to run
C23_Witness ==
    /\ pc = "write"
    /\ enrichments # <<>>
    /\ Len(pageLog) = 2
    /\ Len(issues) = 2
    /\ \A i \in 1..Len(task) : task[i] = "done"
    /\ ListCursors = <<"", "c1">>
    /\ EventFetches = <<EventFetch(Str("1")), EventFetch(Str("2"))>>
    /\ Len(fetchLog) = 4

=============================================================================
